---- MODULE Spec2Model ----
(***************************************************************************)
(* Model of Secure_Calculator_Pro.py: the SafeEvaluator (sanitize_input,   *)
(* is_safe_expression, evaluate) and the FormulaCalculator handlers that   *)
(* drive it (calculate, insert_operator, add_variable, delete_variable,    *)
(* clear_input).                                                           *)
(*                                                                         *)
(* Text is a sequence of code points.  An ASCII code point is written as   *)
(* the one-character string itself; a non-ASCII code point is written by   *)
(* its name, e.g. "U+FF08" for the full-width left parenthesis.            *)
(***************************************************************************)
EXTENDS Integers, Sequences, FiniteSets, TLC

(***************************************************************************)
(* Bounds of the model.                                                    *)
(***************************************************************************)
\* largest magnitude of an integer value the model follows
MaxVal == 25
\* largest number of bindings in self.variables
MaxVars == 2
\* longest text an operator button is pressed into
MaxLen == 4
\* operator buttons pressed into one input text
MaxInserts == 1
\* evaluate calls followed after a remembered one
MaxBetween == 2
\* largest magnitude of an integer argument passed to lcm
MaxArg == 5
\* longest string passed to sanitize_input on its own
MaxStr == 3
\* longest run of prefix operators in a text given to evaluate on its own
MaxNest == 257
\* most tokens of a text the model compiles
MaxTokens == 300

(***************************************************************************)
(* Character classes.                                                      *)
(***************************************************************************)
Lower == {"a","b","c","d","e","f","g","h","i","j","k","l","m",
          "n","o","p","q","r","s","t","u","v","w","x","y","z"}

Upper == {"A","B","C","D","E","F","G","H","I","J","K","L","M",
          "N","O","P","Q","R","S","T","U","V","W","X","Y","Z"}

AsciiLetters == Lower \cup Upper

AsciiDigits == {"0","1","2","3","4","5","6","7","8","9"}

\* decimal digits outside ASCII (category Nd): ARABIC-INDIC DIGIT THREE
UnicodeDigits == {"U+0663"}

\* letters outside ASCII: LATIN SMALL LETTER E WITH ACUTE
UnicodeLetters == {"U+00E9"}

\* str.isspace(): space, tab, newline, IDEOGRAPHIC SPACE
Whitespace == {" ", "\t", "\n", "U+3000"}

FullLeft == "U+FF08"

FullRight == "U+FF09"

DigitValue(c) ==
    CASE c = "0" -> 0 [] c = "1" -> 1 [] c = "2" -> 2 [] c = "3" -> 3
      [] c = "4" -> 4 [] c = "5" -> 5 [] c = "6" -> 6 [] c = "7" -> 7
      [] c = "8" -> 8 [] c = "9" -> 9

(***************************************************************************)
(* String helpers of the Python runtime used by the handlers.              *)
(***************************************************************************)
RECURSIVE LStrip(_)
LStrip(s) ==
    IF s # <<>> /\ Head(s) \in Whitespace THEN LStrip(Tail(s)) ELSE s

RECURSIVE RStrip(_)
RStrip(s) ==
    IF s # <<>> /\ s[Len(s)] \in Whitespace
    THEN RStrip(SubSeq(s, 1, Len(s) - 1))
    ELSE s

\* str.strip()
Strip(s) == RStrip(LStrip(s))

\* c in s
Contains(s, c) == \E i \in 1..Len(s) : s[i] = c

\* index of the first occurrence of c in s (s contains c)
FirstIndex(s, c) == CHOOSE i \in 1..Len(s) : s[i] = c /\ \A j \in 1..(i - 1) : s[j] # c

\* s.split(c, 1) for a text s that contains c
SplitFirst(s, c) ==
    LET i == FirstIndex(s, c)
    IN  << SubSeq(s, 1, i - 1), SubSeq(s, i + 1, Len(s)) >>

IdStart == AsciiLetters \cup {"_"} \cup UnicodeLetters

IdContinue == IdStart \cup AsciiDigits \cup UnicodeDigits

\* mutant of IsIdentifier: any non-empty text without "=" is taken as a name
IsIdentifierLoose(s) == Len(s) >= 1

\* str.isidentifier()
IsIdentifier(s) ==
    /\ Len(s) >= 1
    /\ s[1] \in IdStart
    /\ \A i \in 2..Len(s) : s[i] \in IdContinue

(***************************************************************************)
(* SafeEvaluator.sanitize_input                                            *)
(***************************************************************************)
\* ''.join(expr.split())
\* mutant of RemoveWhitespace: whitespace removed at the two ends only
RemoveWhitespaceEnds(s) == Strip(s)

RemoveWhitespace(s) == SelectSeq(s, LAMBDA c : c \notin Whitespace)

ReplaceParens(s) ==
    [i \in 1..Len(s) |->
        IF s[i] = FullLeft THEN "(" ELSE IF s[i] = FullRight THEN ")" ELSE s[i]]

sanitize_input(expr) == ReplaceParens(RemoveWhitespace(expr))

(***************************************************************************)
(* SafeEvaluator.is_safe_expression                                        *)
(***************************************************************************)
\* the character class of safe_pattern; \d matches every decimal digit
SafeChars ==
    AsciiDigits \cup UnicodeDigits \cup AsciiLetters \cup
    {"+", "-", "*", "/", "%", "(", ")", ".", ",", "!", "^", "&", "=", "<", ">", "|", "~"}

\* re.match(r'^[...]+$', expr): $ also matches before one final newline
is_safe_expression(expr) ==
    LET body == IF expr # <<>> /\ expr[Len(expr)] = "\n"
                THEN SubSeq(expr, 1, Len(expr) - 1)
                ELSE expr
    IN  /\ Len(body) >= 1
        /\ \A i \in 1..Len(body) : body[i] \in SafeChars

(***************************************************************************)
(* Values of the Python runtime that an expression can produce.            *)
(*   int    n = the integer; s = "huge" for an integer of more than        *)
(*          IntMaxStrDigits decimal digits, whose digits the model drops   *)
(*   bool   n = 1 for True, 0 for False                                    *)
(*   float  s = "" and n = k for the float of integral value k,            *)
(*          s = "pi", "e", "tau", "inf", "nan" for the math constants      *)
(*   func   s = the name of the callable of safe_dict                      *)
(*   method s = the method name, items = <<the object it is bound to>>     *)
(*   tuple  items = the elements                                           *)
(*   none   the value None                                                 *)
(***************************************************************************)
IntV(k) == [t |-> "int", n |-> k, s |-> "", items |-> <<>>]

BoolV(b) == [t |-> "bool", n |-> IF b THEN 1 ELSE 0, s |-> "", items |-> <<>>]

FloatV(k) == [t |-> "float", n |-> k, s |-> "", items |-> <<>>]

ConstV(name) == [t |-> "float", n |-> 0, s |-> name, items |-> <<>>]

FuncV(name) == [t |-> "func", n |-> 0, s |-> name, items |-> <<>>]

MethodV(name, self) == [t |-> "method", n |-> 0, s |-> name, items |-> <<self>>]

TupleV(elems) == [t |-> "tuple", n |-> Len(elems), s |-> "", items |-> elems]

NoneV == [t |-> "none", n |-> 0, s |-> "", items |-> <<>>]

HugeV == [t |-> "int", n |-> 0, s |-> "huge", items |-> <<>>]

\* sys.int_max_str_digits: str() of an int with more digits raises ValueError
IntMaxStrDigits == 4300

\* int and bool (a subclass of int)
IsIntLike(v) == v.t \in {"int", "bool"}

\* int, bool and float: the numeric values
IsNumeric(v) == v.t \in {"int", "bool", "float"}

\* a numeric value whose number the model carries in n
IsExact(v) == IsNumeric(v) /\ v.s = ""

(***************************************************************************)
(* Tokens of the Python tokenizer, as far as eval() of line 87 needs them. *)
(*   k = "num" (n = value), "name" (id = identifier), "kw" (s = True,      *)
(*   False or None), "op" (s = operator)                                   *)
(* The status is "ok", "syntax" (the tokenizer raises SyntaxError) or      *)
(* "unmodelled" (a literal or keyword outside the modelled grammar).       *)
(***************************************************************************)
Tok(k, n, s, id) == [k |-> k, n |-> n, s |-> s, id |-> id]

\* keyword.kwlist without True, False, None
Keywords ==
    {<<"a","n","d">>, <<"a","s">>, <<"a","s","s","e","r","t">>, <<"a","s","y","n","c">>,
     <<"a","w","a","i","t">>, <<"b","r","e","a","k">>, <<"c","l","a","s","s">>,
     <<"c","o","n","t","i","n","u","e">>, <<"d","e","f">>, <<"d","e","l">>, <<"e","l","i","f">>,
     <<"e","l","s","e">>, <<"e","x","c","e","p","t">>, <<"f","i","n","a","l","l","y">>,
     <<"f","o","r">>, <<"f","r","o","m">>, <<"g","l","o","b","a","l">>, <<"i","f">>,
     <<"i","m","p","o","r","t">>, <<"i","n">>, <<"i","s">>, <<"l","a","m","b","d","a">>,
     <<"n","o","n","l","o","c","a","l">>, <<"n","o","t">>, <<"o","r">>, <<"p","a","s","s">>,
     <<"r","a","i","s","e">>, <<"r","e","t","u","r","n">>, <<"t","r","y">>,
     <<"w","h","i","l","e">>, <<"w","i","t","h">>, <<"y","i","e","l","d">>}

NameChars == IdContinue

\* longest integer literal the model reads
MaxDigits == 9

TwoCharOps == {<<"*","*">>, <<"/","/">>, <<"=","=">>, <<"!","=">>,
               <<"<","=">>, <<">","=">>, <<"<","<">>, <<">",">">>}

OneCharOps == {"+", "-", "*", "/", "%", "(", ")", ",", "^", "&", "|", "~",
               "<", ">", "=", "."}

\* end of the maximal run of characters of class cls that starts at i
RunEnd(s, i, cls) ==
    CHOOSE j \in i..Len(s) :
        /\ \A k \in (i + 1)..j : s[k] \in cls
        /\ j = Len(s) \/ s[j + 1] \notin cls

RECURSIVE DecimalValue(_)
DecimalValue(ds) ==
    IF ds = <<>> THEN 0
    ELSE 10 * DecimalValue(SubSeq(ds, 1, Len(ds) - 1)) + DigitValue(ds[Len(ds)])

OpName(cs) == IF Len(cs) = 1 THEN cs[1]
              ELSE CASE cs = <<"*","*">> -> "**" [] cs = <<"/","/">> -> "//"
                     [] cs = <<"=","=">> -> "==" [] cs = <<"!","=">> -> "!="
                     [] cs = <<"<","=">> -> "<=" [] cs = <<">","=">> -> ">="
                     [] cs = <<"<","<">> -> "<<" [] cs = <<">",">">> -> ">>"

\* the text in front of the first "#": a comment runs to the end of the line
CodePart(s) ==
    IF Contains(s, "#") THEN SubSeq(s, 1, FirstIndex(s, "#") - 1) ELSE s

\* the characters of the two-character operators
Pairable == {"*", "/", "=", "!", "<", ">"}

\* an operator that starts at i takes two characters when they form one
OpLen(s, i) ==
    IF i + 1 <= Len(s) /\ <<s[i], s[i + 1]>> \in TwoCharOps THEN 2 ELSE 1

\* first position of the run of Pairable characters that holds position i
PairRunStart(s, i) ==
    CHOOSE r \in 1..i :
        /\ \A k \in r..i : s[k] \in Pairable
        /\ r = 1 \/ s[r - 1] \notin Pairable

\* a token starts at r: the tokenizer, taking the longest operator each
\* time, starts a token at i as well
RECURSIVE StartsFrom(_, _, _)
StartsFrom(s, r, i) ==
    IF r >= i THEN r = i ELSE StartsFrom(s, r + OpLen(s, r), i)

\* the tokenizer, reading s from the left, starts a token at position i:
\* a name or a number takes a whole run of name characters
IsTokenStart(s, i) ==
    IF s[i] \in NameChars THEN i = 1 \/ s[i - 1] \notin NameChars
    ELSE IF s[i] \in Pairable THEN StartsFrom(s, PairRunStart(s, i), i)
    ELSE TRUE

\* what the tokenizer makes of the token that starts at i
TokenStatus(s, i) ==
    IF s[i] \in AsciiDigits THEN
       LET Run(j) ==
               IF j + 1 <= Len(s) /\ s[j + 1] \in (NameChars \cup {"."})
               THEN \* float, hex, exponent or imaginary literal, or a keyword glued to a number
                    "unmodelled"
               ELSE IF j - i + 1 > MaxDigits THEN "unmodelled"
               ELSE IF j > i /\ s[i] = "0" /\ \E q \in i..j : s[q] # "0"
               THEN "syntax"
               ELSE "ok"
       IN  Run(RunEnd(s, i, AsciiDigits))
    ELSE IF s[i] \in IdStart THEN
       IF SubSeq(s, i, RunEnd(s, i, NameChars)) \in Keywords THEN "unmodelled" ELSE "ok"
    ELSE IF s[i] \in UnicodeDigits THEN "syntax"
    ELSE IF s[i] = "." /\ i + 1 <= Len(s) /\ s[i + 1] \in (AsciiDigits \cup {"."})
    THEN \* float literal or Ellipsis
         "unmodelled"
    ELSE IF OpLen(s, i) = 2 THEN "ok"
    ELSE IF s[i] \in OneCharOps THEN "ok"
    ELSE IF s[i] = "!" THEN "syntax"
    ELSE "unmodelled"

\* the token that starts at i, where TokenStatus is "ok"
TokenAt(s, i) ==
    IF s[i] \in AsciiDigits
    THEN Tok("num", DecimalValue(SubSeq(s, i, RunEnd(s, i, AsciiDigits))), "", <<>>)
    ELSE IF s[i] \in IdStart
    THEN LET Word(id) ==
                 IF id = <<"T","r","u","e">> THEN Tok("kw", 0, "True", <<>>)
                 ELSE IF id = <<"F","a","l","s","e">> THEN Tok("kw", 0, "False", <<>>)
                 ELSE IF id = <<"N","o","n","e">> THEN Tok("kw", 0, "None", <<>>)
                 ELSE Tok("name", 0, "", id)
         IN  Word(SubSeq(s, i, RunEnd(s, i, NameChars)))
    ELSE IF OpLen(s, i) = 2 THEN Tok("op", 0, OpName(<<s[i], s[i + 1]>>), <<>>)
    ELSE Tok("op", 0, s[i], <<>>)

\* the tokens that start at the positions at, up to the first one the
\* tokenizer stops at
TokensAt(s, at) ==
    LET UpTo(bad) ==
            IF bad = {} THEN [st |-> "ok", toks |-> [k \in 1..Len(at) |-> TokenAt(s, at[k])]]
            ELSE LET First(b) ==
                         [st |-> TokenStatus(s, at[b]),
                          toks |-> [k \in 1..(b - 1) |-> TokenAt(s, at[k])]]
                 IN  First(CHOOSE b \in bad : \A o \in bad : b <= o)
    IN  UpTo({k \in 1..Len(at) : TokenStatus(s, at[k]) # "ok"})

Tokenize(s) ==
    LET Code(c) ==
            TokensAt(c, SelectSeq([i \in 1..Len(c) |-> i], LAMBDA i : IsTokenStart(c, i)))
    IN  Code(CodePart(s))

(***************************************************************************)
(* The parser of eval() (line 87): Python's expression grammar over the    *)
(* tokens above, in Python's precedence order:                             *)
(*   expressions  e , e , ...            (a tuple)                         *)
(*   comparison   == != < > <= >=        (chained)                         *)
(*   | ; ^ ; & ; << >> ; + - ; * / // % ; unary + - ~ ; ** ; trailers      *)
(* Conditional, boolean and membership expressions, lambdas, starred and   *)
(* keyword arguments are outside the modelled grammar ("unmodelled").      *)
(* Python compiles the whole text before it evaluates anything, so a       *)
(* syntax error is found before any name is looked up.                     *)
(***************************************************************************)
NoAst == [k |-> "none"]

PR(st, ast, i) == [st |-> st, ast |-> ast, i |-> i]

IR(st, elems, comma, i) == [st |-> st, elems |-> elems, comma |-> comma, i |-> i]

IsOp(toks, i, ops) == i <= Len(toks) /\ toks[i].k = "op" /\ toks[i].s \in ops

CmpOps == {"==", "!=", "<", ">", "<=", ">="}

\* binary operator levels, loosest first
LevelOps(level) ==
    CASE level = 1 -> {"|"}
      [] level = 2 -> {"^"}
      [] level = 3 -> {"&"}
      [] level = 4 -> {"<<", ">>"}
      [] level = 5 -> {"+", "-"}
      [] level = 6 -> {"*", "/", "//", "%"}

RECURSIVE ParseExpr(_, _), ParseCmpRest(_, _, _, _, _), ParseBin(_, _, _),
          ParseBinRest(_, _, _, _), ParseUnary(_, _), ParsePower(_, _),
          ParsePrimary(_, _), ParseTrailers(_, _, _), ParseAtom(_, _),
          ParseItems(_, _, _, _)

ParseExpr(toks, i) ==
    LET Rest(l) == IF l.st # "ok" THEN l
                   ELSE ParseCmpRest(toks, l.i, l.ast, <<>>, <<>>)
    IN  Rest(ParseBin(1, toks, i))

ParseCmpRest(toks, i, first, ops, rest) ==
    IF IsOp(toks, i, CmpOps)
    THEN LET Rest(r) ==
                 IF r.st # "ok" THEN r
                 ELSE ParseCmpRest(toks, r.i, first, Append(ops, toks[i].s),
                                   Append(rest, r.ast))
         IN  Rest(ParseBin(1, toks, i + 1))
    ELSE IF ops = <<>> THEN PR("ok", first, i)
    ELSE PR("ok", [k |-> "cmp", first |-> first, ops |-> ops, rest |-> rest], i)

ParseBin(level, toks, i) ==
    IF level > 6 THEN ParseUnary(toks, i)
    ELSE LET Rest(l) == IF l.st # "ok" THEN l
                        ELSE ParseBinRest(level, toks, l.i, l.ast)
         IN  Rest(ParseBin(level + 1, toks, i))

ParseBinRest(level, toks, i, left) ==
    IF IsOp(toks, i, LevelOps(level))
    THEN LET Rest(r) ==
                 IF r.st # "ok" THEN r
                 ELSE ParseBinRest(level, toks, r.i,
                                   [k |-> "bin", op |-> toks[i].s, l |-> left, r |-> r.ast])
         IN  Rest(ParseBin(level + 1, toks, i + 1))
    ELSE PR("ok", left, i)

\* a run of prefix operators in front of a power: ops holds them from the
\* outermost to the innermost, - - x is -(-(x))
ParseUnary(toks, i) ==
    IF IsOp(toks, i, {"+", "-", "~"})
    THEN LET Rest(j, x) ==
                 IF x.st # "ok" THEN x
                 ELSE PR("ok", [k |-> "un", ops |-> [m \in 1..(j - i + 1) |-> toks[i + m - 1].s],
                                x |-> x.ast], x.i)
             Run(j) == Rest(j, ParsePower(toks, j + 1))
         IN  Run(CHOOSE j \in i..Len(toks) :
                     /\ \A m \in i..j : IsOp(toks, m, {"+", "-", "~"})
                     /\ ~IsOp(toks, j + 1, {"+", "-", "~"}))
    ELSE ParsePower(toks, i)

ParsePower(toks, i) ==
    LET Exponent(p, e) ==
            IF e.st # "ok" THEN e
            ELSE PR("ok", [k |-> "bin", op |-> "**", l |-> p.ast, r |-> e.ast], e.i)
        Rest(p) ==
            IF p.st # "ok" THEN p
            ELSE IF IsOp(toks, p.i, {"**"})
            THEN Exponent(p, ParseUnary(toks, p.i + 1))
            ELSE p
    IN  Rest(ParsePrimary(toks, i))

ParsePrimary(toks, i) ==
    LET Rest(a) == IF a.st # "ok" THEN a ELSE ParseTrailers(toks, a.i, a.ast)
    IN  Rest(ParseAtom(toks, i))

ParseTrailers(toks, i, x) ==
    IF IsOp(toks, i, {"."})
    THEN IF i + 1 <= Len(toks) /\ toks[i + 1].k = "name"
         THEN ParseTrailers(toks, i + 2, [k |-> "attr", x |-> x, id |-> toks[i + 1].id])
         ELSE PR("syntax", NoAst, i)
    ELSE IF IsOp(toks, i, {"("})
    THEN LET Rest(as) ==
                 IF as.st # "ok" THEN PR(as.st, NoAst, as.i)
                 ELSE ParseTrailers(toks, as.i,
                                    [k |-> "call", f |-> x, args |-> as.elems])
         IN  Rest(ParseItems(toks, i + 1, <<>>, FALSE))
    ELSE PR("ok", x, i)

ParseAtom(toks, i) ==
    IF i > Len(toks) THEN PR("syntax", NoAst, i)
    ELSE IF toks[i].k = "num" THEN PR("ok", [k |-> "num", n |-> toks[i].n], i + 1)
    ELSE IF toks[i].k = "name" THEN PR("ok", [k |-> "name", id |-> toks[i].id], i + 1)
    ELSE IF toks[i].k = "kw" THEN PR("ok", [k |-> "const", s |-> toks[i].s], i + 1)
    ELSE IF toks[i].s = "("
    THEN LET Rest(it) ==
                 IF it.st # "ok" THEN PR(it.st, NoAst, it.i)
                 ELSE IF ~it.comma /\ Len(it.elems) = 1 THEN PR("ok", it.elems[1], it.i)
                 ELSE PR("ok", [k |-> "tuple", elems |-> it.elems], it.i)
         IN  Rest(ParseItems(toks, i + 1, <<>>, FALSE))
    ELSE PR("syntax", NoAst, i)

\* the items between "(" and the matching ")": a parenthesised form or the
\* arguments of a call; i is the position after the ")"
ParseItems(toks, i, acc, comma) ==
    IF i > Len(toks) THEN IR("syntax", acc, comma, i)
    ELSE IF IsOp(toks, i, {")"}) THEN IR("ok", acc, comma, i + 1)
    ELSE IF IsOp(toks, i, {"*", "**"}) THEN IR("unmodelled", acc, comma, i)
    ELSE LET Rest(e) ==
                 IF e.st # "ok" THEN IR(e.st, acc, comma, e.i)
                 ELSE IF IsOp(toks, e.i, {","})
                 THEN ParseItems(toks, e.i + 1, Append(acc, e.ast), TRUE)
                 ELSE IF IsOp(toks, e.i, {")"})
                 THEN IR("ok", Append(acc, e.ast), comma, e.i + 1)
                 ELSE IF IsOp(toks, e.i, {"="}) THEN IR("unmodelled", acc, comma, e.i)
                 ELSE IR("syntax", acc, comma, e.i)
         IN  Rest(ParseExpr(toks, i))

\* eval input: e (, e)* [,] up to the end of the text
RECURSIVE ParseTopItems(_, _, _, _)
ParseTopItems(toks, i, acc, comma) ==
    LET Rest(e) ==
            IF e.st # "ok" THEN IR(e.st, acc, comma, e.i)
            ELSE IF e.i > Len(toks) THEN IR("ok", Append(acc, e.ast), comma, e.i)
            ELSE IF IsOp(toks, e.i, {","})
            THEN IF e.i + 1 > Len(toks) THEN IR("ok", Append(acc, e.ast), TRUE, e.i + 1)
                 ELSE ParseTopItems(toks, e.i + 1, Append(acc, e.ast), TRUE)
            ELSE IR("syntax", acc, comma, e.i)
    IN  Rest(ParseExpr(toks, i))

\* compile(expr, '<string>', 'eval')
Parse(s) ==
    LET Items(it) ==
            IF it.st # "ok" THEN PR(it.st, NoAst, it.i)
            ELSE IF ~it.comma THEN PR("ok", it.elems[1], it.i)
            ELSE PR("ok", [k |-> "tuple", elems |-> it.elems], it.i)
        Tokens(tk) ==
            IF tk.st # "ok" THEN PR(tk.st, NoAst, 0)
            ELSE IF Len(tk.toks) > MaxTokens
            THEN \* the compiler's own limits on nesting are not modelled
                 PR("unmodelled", NoAst, 0)
            ELSE Items(ParseTopItems(tk.toks, 1, <<>>, FALSE))
    IN  Tokens(Tokenize(s))

(***************************************************************************)
(* Evaluation of the compiled expression.  A result is                     *)
(*   st = "ok"          val = the value                                    *)
(*   st = "error"       err = the exception class eval() raises            *)
(*   st = "unmodelled"  an operation outside the modelled semantics        *)
(*   st = "outofbounds" a number beyond MaxVal                             *)
(***************************************************************************)
ER(st, val, err) == [st |-> st, val |-> val, err |-> err]

Big(x) == x > MaxVal \/ x < -MaxVal

Ok(v) == IF IsExact(v) /\ Big(v.n)
         THEN ER("outofbounds", NoneV, "")
         ELSE ER("ok", v, "")

Err(e) == ER("error", NoneV, e)

Unmodelled == ER("unmodelled", NoneV, "")

OutOfBounds == ER("outofbounds", NoneV, "")

AbsInt(x) == IF x < 0 THEN -x ELSE x

\* x ** y for y >= 0, stopping once the magnitude has passed MaxVal
RECURSIVE PowFrom(_, _, _)
PowFrom(x, y, acc) ==
    IF y = 0 \/ AbsInt(acc) > MaxVal THEN acc ELSE PowFrom(x, y - 1, acc * x)

PowCap(x, y) ==
    CASE x = 0 -> IF y = 0 THEN 1 ELSE 0
      [] x = 1 -> 1
      [] x = -1 -> IF y % 2 = 0 THEN 1 ELSE -1
      [] OTHER -> PowFrom(x, y, 1)

\* x! for x >= 0, stopping once it has passed MaxVal
RECURSIVE FactFrom(_, _, _)
FactFrom(k, x, acc) ==
    IF k > x \/ acc > MaxVal THEN acc ELSE FactFrom(k + 1, x, acc * k)

FactCap(x) == FactFrom(2, x, 1)

RECURSIVE Gcd(_, _)
Gcd(x, y) == IF y = 0 THEN x ELSE Gcd(y, x % y)

\* Python's x % y for y # 0: the result has the sign of y
PyMod(x, y) == x - y * (x \div y)

\* bitwise operation on non-negative integers
RECURSIVE BitOp(_, _, _)
BitOp(op, x, y) ==
    IF x = 0 /\ y = 0 THEN 0
    ELSE LET a == x % 2
             b == y % 2
             bit == CASE op = "&" -> IF a = 1 /\ b = 1 THEN 1 ELSE 0
                      [] op = "|" -> IF a = 1 \/ b = 1 THEN 1 ELSE 0
                      [] op = "^" -> IF a # b THEN 1 ELSE 0
         IN  bit + 2 * BitOp(op, x \div 2, y \div 2)

\* bool(v)
Truthy(v) ==
    CASE IsExact(v) -> v.n # 0
      [] v.t = "float" /\ v.s # "" -> TRUE
      [] v.t = "tuple" -> v.n > 0
      [] v.t = "none" -> FALSE
      [] OTHER -> TRUE

ArithOps == {"+", "-", "*", "/", "//", "%", "**"}

BitOps == {"&", "|", "^"}

ShiftOps == {"<<", ">>"}

\* binary operator on two numbers x, y; isFloat: the result type is float
NumOp(op, x, y, isFloat) ==
    LET mk(k) == IF isFloat THEN Ok(FloatV(k)) ELSE Ok(IntV(k))
        negzero(k) == isFloat /\ k = 0 /\ (x < 0 \/ y < 0)
    IN  CASE op = "+" -> mk(x + y)
          [] op = "-" -> mk(x - y)
          [] op = "*" -> IF negzero(x * y) THEN Unmodelled ELSE mk(x * y)
          [] op = "/" -> IF y = 0 THEN Err("ZeroDivisionError")
                         ELSE IF PyMod(x, y) # 0 \/ (x = 0 /\ y < 0) THEN Unmodelled
                         ELSE Ok(FloatV(x \div y))
          [] op = "//" -> IF y = 0 THEN Err("ZeroDivisionError")
                          ELSE IF negzero(x \div y) THEN Unmodelled
                          ELSE mk(x \div y)
          [] op = "%" -> IF y = 0 THEN Err("ZeroDivisionError")
                         ELSE IF negzero(PyMod(x, y)) THEN Unmodelled
                         ELSE mk(PyMod(x, y))
          [] op = "**" -> IF y >= 0 THEN mk(PowCap(x, y))
                          ELSE IF x = 0 THEN Err("ZeroDivisionError")
                          ELSE IF x = 1 THEN Ok(FloatV(1))
                          ELSE Unmodelled

BinOp(op, a, b) ==
    IF IsNumeric(a) /\ IsNumeric(b) THEN
       IF op \in BitOps \cup ShiftOps /\ (a.t = "float" \/ b.t = "float")
       THEN Err("TypeError")
       ELSE IF ~IsExact(a) \/ ~IsExact(b) THEN Unmodelled
       ELSE IF /\ op = "**" /\ IsIntLike(a) /\ IsIntLike(b)
               /\ AbsInt(a.n) >= 10 /\ b.n >= IntMaxStrDigits
       THEN \* at least 10 ** 4300: more than IntMaxStrDigits digits
            Ok(HugeV)
       ELSE IF Big(a.n) \/ Big(b.n) THEN OutOfBounds
       ELSE IF op \in ArithOps
       THEN NumOp(op, a.n, b.n, a.t = "float" \/ b.t = "float")
       ELSE IF op \in BitOps
       THEN IF a.n < 0 \/ b.n < 0 THEN Unmodelled
            ELSE IF a.t = "bool" /\ b.t = "bool"
            THEN Ok(BoolV(BitOp(op, a.n, b.n) = 1))
            ELSE Ok(IntV(BitOp(op, a.n, b.n)))
       ELSE \* shifts
            IF b.n < 0 THEN Err("ValueError")
            ELSE IF op = "<<"
            THEN (IF a.n = 0 THEN Ok(IntV(0))
                  ELSE IF b.n > MaxVal THEN OutOfBounds
                  ELSE LET p == PowCap(2, b.n)
                       IN IF p > MaxVal THEN OutOfBounds ELSE Ok(IntV(a.n * p)))
            ELSE (IF b.n > MaxVal THEN OutOfBounds
                  ELSE LET p == PowCap(2, b.n)
                       IN IF p > MaxVal THEN Ok(IntV(IF a.n < 0 THEN -1 ELSE 0))
                          ELSE Ok(IntV(a.n \div p)))
    ELSE IF a.t = "tuple" /\ b.t = "tuple" /\ op = "+"
    THEN Ok(TupleV(a.items \o b.items))
    ELSE IF op = "*" /\ ((a.t = "tuple" /\ IsIntLike(b)) \/ (IsIntLike(a) /\ b.t = "tuple"))
    THEN Unmodelled
    ELSE Err("TypeError")

UnOp(op, a) ==
    IF ~IsNumeric(a) THEN Err("TypeError")
    ELSE IF op = "~" /\ a.t = "float" THEN Err("TypeError")
    ELSE IF ~IsExact(a) THEN Unmodelled
    ELSE IF Big(a.n) THEN OutOfBounds
    ELSE IF op = "~" THEN Ok(IntV(-a.n - 1))
    ELSE IF op = "-"
    THEN IF a.t = "float" THEN (IF a.n = 0 THEN Unmodelled ELSE Ok(FloatV(-a.n)))
         ELSE Ok(IntV(-a.n))
    ELSE IF a.t = "float" THEN Ok(a) ELSE Ok(IntV(a.n))

NumCmp(op, x, y) ==
    CASE op = "==" -> x = y
      [] op = "!=" -> x # y
      [] op = "<"  -> x < y
      [] op = ">"  -> x > y
      [] op = "<=" -> x <= y
      [] op = ">=" -> x >= y

CmpOp(op, a, b) ==
    IF IsNumeric(a) /\ IsNumeric(b)
    THEN IF IsExact(a) /\ IsExact(b) THEN Ok(BoolV(NumCmp(op, a.n, b.n))) ELSE Unmodelled
    ELSE IF a.t \in {"tuple", "method"} /\ b.t = a.t THEN Unmodelled
    ELSE IF op \in {"==", "!="}
    THEN \* different types never compare equal; functions compare by identity
         LET same == a.t = b.t /\ a.s = b.s
         IN  Ok(BoolV(IF op = "==" THEN same ELSE ~same))
    ELSE Err("TypeError")

\* getattr(v, id) for an attribute name the validator lets through
Attr(v, id) ==
    IF Contains(id, "_") THEN Unmodelled
    ELSE IF IsNumeric(v)
    THEN IF id = <<"r","e","a","l">>
         THEN (IF v.t = "bool" THEN Ok(IntV(v.n)) ELSE ER("ok", v, ""))
         ELSE IF id = <<"i","m","a","g">>
         THEN (IF v.t = "float" THEN Ok(FloatV(0)) ELSE Ok(IntV(0)))
         ELSE IF id = <<"c","o","n","j","u","g","a","t","e">>
         THEN Ok(MethodV("conjugate", v))
         ELSE Unmodelled
    ELSE IF v.t = "tuple"
    THEN IF id \in {<<"c","o","u","n","t">>, <<"i","n","d","e","x">>}
         THEN Unmodelled
         ELSE Err("AttributeError")
    ELSE Err("AttributeError")

(***************************************************************************)
(* The callables of safe_dict (lines 18-69).                               *)
(***************************************************************************)
Unbounded == 99

\* <<fewest, most>> positional arguments the callable accepts
Arity(name) ==
    CASE name \in {"min", "max"} -> <<1, Unbounded>>
      [] name \in {"round", "log"} -> <<1, 2>>
      [] name = "pow" -> <<2, 3>>
      [] name \in {"atan2", "lcm"} -> <<2, 2>>
      [] name = "gcd" -> <<0, Unbounded>>
      [] OTHER -> <<1, 1>>

IsSquare(x) == \E r \in 0..MaxVal : r * r = x

SquareRoot(x) == CHOOSE r \in 0..MaxVal : r * r = x

\* the first smallest (largest) of the numbers in args
PickExtreme(name, args) ==
    LET better(x, y) == IF name = "min" THEN x < y ELSE x > y
        i == CHOOSE p \in 1..Len(args) :
                /\ \A q \in 1..Len(args) : ~better(args[q].n, args[p].n)
                /\ \A q \in 1..(p - 1) : better(args[p].n, args[q].n)
    IN  args[i]

\* int(v) for a number the model carries: round, ceil, floor, trunc
ToInt(v) == IF IsExact(v) THEN Ok(IntV(v.n))
            ELSE IF IsNumeric(v) THEN Unmodelled
            ELSE Err("TypeError")

\* mutant of lcm: the quotient without the test for a zero operand
lcmDividing(a, b) ==
    IF IsIntLike(a) /\ IsIntLike(b)
    THEN IF ~IsExact(a) \/ ~IsExact(b) THEN Unmodelled
         ELSE IF Big(a.n) \/ Big(b.n) THEN OutOfBounds
         ELSE IF Gcd(AbsInt(a.n), AbsInt(b.n)) = 0 THEN Err("ZeroDivisionError")
         ELSE Ok(IntV(AbsInt(a.n * b.n) \div Gcd(AbsInt(a.n), AbsInt(b.n))))
    ELSE Err("TypeError")

\* line 65: lambda a, b: abs(a*b) // math.gcd(a, b) if a and b else 0
lcm(a, b) ==
    IF ~(Truthy(a) /\ Truthy(b)) THEN Ok(IntV(0))
    ELSE IF IsIntLike(a) /\ IsIntLike(b)
    THEN IF ~IsExact(a) \/ ~IsExact(b) THEN Unmodelled
         ELSE IF Big(a.n) \/ Big(b.n) THEN OutOfBounds
         ELSE Ok(IntV(AbsInt(a.n * b.n) \div Gcd(AbsInt(a.n), AbsInt(b.n))))
    ELSE Err("TypeError")

Apply(name, args) ==
    LET n == Len(args) IN
    IF n < Arity(name)[1] \/ n > Arity(name)[2] THEN Err("TypeError")
    ELSE IF name = "lcm" THEN lcm(args[1], args[2])
    ELSE IF name = "gcd"
    THEN IF n # 2 THEN Unmodelled
         ELSE IF IsIntLike(args[1]) /\ IsIntLike(args[2])
         THEN (IF ~IsExact(args[1]) \/ ~IsExact(args[2]) THEN Unmodelled
               ELSE Ok(IntV(Gcd(AbsInt(args[1].n), AbsInt(args[2].n)))))
         ELSE Err("TypeError")
    ELSE IF name \in {"min", "max"}
    THEN IF n = 1 THEN (IF args[1].t = "tuple" THEN Unmodelled ELSE Err("TypeError"))
         ELSE IF \A i \in 1..n : IsExact(args[i])
         THEN ER("ok", PickExtreme(name, args), "")
         ELSE Unmodelled
    ELSE IF name = "pow"
    THEN IF n = 3 THEN Unmodelled
         ELSE IF IsNumeric(args[1]) /\ IsNumeric(args[2])
         THEN BinOp("**", args[1], args[2])
         ELSE Err("TypeError")
    ELSE IF n = 2 THEN \* round(x, ndigits), log(x, base), atan2(y, x)
         Unmodelled
    ELSE LET a == args[1] IN
         IF ~IsNumeric(a) THEN Err("TypeError")
         ELSE IF ~IsExact(a) THEN Unmodelled
         ELSE IF Big(a.n) THEN OutOfBounds
         ELSE IF name = "abs"
         THEN (IF a.t = "float" THEN Ok(FloatV(AbsInt(a.n))) ELSE Ok(IntV(AbsInt(a.n))))
         ELSE IF name \in {"round", "ceil", "floor", "trunc"} THEN ToInt(a)
         ELSE IF name = "factorial"
         THEN (IF a.t = "float" THEN Unmodelled
               ELSE IF a.n < 0 THEN Err("ValueError")
               ELSE Ok(IntV(FactCap(a.n))))
         ELSE IF name = "sqrt"
         THEN (IF a.n < 0 THEN Err("ValueError")
               ELSE IF IsSquare(a.n) THEN Ok(FloatV(SquareRoot(a.n)))
               ELSE Unmodelled)
         ELSE IF name \in {"log", "log10", "log2"}
         THEN (IF a.n <= 0 THEN Err("ValueError")
               ELSE IF a.n = 1 THEN Ok(FloatV(0))
               ELSE Unmodelled)
         ELSE Unmodelled

\* f(args): only the callables of the scope and bound methods can be called
Call(f, args) ==
    IF f.t = "func" THEN Apply(f.s, args)
    ELSE IF f.t = "method"
    THEN IF args # <<>> THEN Err("TypeError")
         ELSE IF f.items[1].t = "bool" THEN ER("ok", IntV(f.items[1].n), "")
         ELSE ER("ok", f.items[1], "")
    ELSE Err("TypeError")

(***************************************************************************)
(* eval(expr, {'__builtins__': None}, eval_dict) of line 87: every name is *)
(* looked up in eval_dict; the globals hold nothing an expression can name *)
(* and there are no builtins, so a name absent from eval_dict raises.      *)
(***************************************************************************)
\* the prefix operators ops[lo..hi] applied to the result r, innermost
\* (ops[hi]) first; the run is split in halves
RECURSIVE ApplyUnary(_, _, _, _)
ApplyUnary(ops, lo, hi, r) ==
    IF r.st # "ok" \/ lo > hi THEN r
    ELSE IF lo = hi THEN UnOp(ops[lo], r.val)
    ELSE LET Outer(inner) == ApplyUnary(ops, lo, (lo + hi) \div 2, inner)
         IN  Outer(ApplyUnary(ops, (lo + hi) \div 2 + 1, hi, r))

RECURSIVE Eval(_, _), EvalSeq(_, _, _), EvalChain(_, _, _, _)

Eval(ast, scope) ==
    CASE ast.k = "num" -> ER("ok", IntV(ast.n), "")
      [] ast.k = "const" -> (CASE ast.s = "True" -> Ok(BoolV(TRUE))
                               [] ast.s = "False" -> Ok(BoolV(FALSE))
                               [] ast.s = "None" -> Ok(NoneV))
      [] ast.k = "name" -> IF ast.id \in DOMAIN scope THEN Ok(scope[ast.id])
                           ELSE Err("NameError")
      [] ast.k = "tuple" -> EvalSeq(ast.elems, scope, <<>>)
      [] ast.k = "un" ->
            LET Operand(x) == ApplyUnary(ast.ops, 1, Len(ast.ops), x)
            IN  Operand(Eval(ast.x, scope))
      [] ast.k = "bin" ->
            LET Right(l, r) == IF r.st # "ok" THEN r ELSE BinOp(ast.op, l.val, r.val)
                Left(l) == IF l.st # "ok" THEN l ELSE Right(l, Eval(ast.r, scope))
            IN  Left(Eval(ast.l, scope))
      [] ast.k = "cmp" ->
            LET First(l) == IF l.st # "ok" THEN l
                            ELSE EvalChain(l.val, ast.ops, ast.rest, scope)
            IN  First(Eval(ast.first, scope))
      [] ast.k = "attr" ->
            LET Object(x) == IF x.st # "ok" THEN x ELSE Attr(x.val, ast.id)
            IN  Object(Eval(ast.x, scope))
      [] ast.k = "call" ->
            LET Args(f, as) == IF as.st # "ok" THEN as ELSE Call(f.val, as.val.items)
                Callee(f) == IF f.st # "ok" THEN f
                             ELSE Args(f, EvalSeq(ast.args, scope, <<>>))
            IN  Callee(Eval(ast.f, scope))

\* the values of asts, left to right, as a tuple
EvalSeq(asts, scope, acc) ==
    IF asts = <<>> THEN Ok(TupleV(acc))
    ELSE LET Item(x) == IF x.st # "ok" THEN x
                        ELSE EvalSeq(Tail(asts), scope, Append(acc, x.val))
         IN  Item(Eval(Head(asts), scope))

\* left op1 r1 op2 r2 ...: stops at the first comparison that is false
EvalChain(left, ops, rest, scope) ==
    LET Compared(r, c) ==
            IF c.st # "ok" THEN c
            ELSE IF Len(ops) = 1 \/ ~Truthy(c.val) THEN c
            ELSE EvalChain(r.val, Tail(ops), Tail(rest), scope)
        Right(r) == IF r.st # "ok" THEN r
                    ELSE Compared(r, CmpOp(Head(ops), left, r.val))
    IN  Right(Eval(Head(rest), scope))

\* eval(): compile, then evaluate
PyEval(expr, scope) ==
    LET Compiled(p) ==
            IF p.st = "syntax" THEN Err("SyntaxError")
            ELSE IF p.st = "unmodelled" THEN Unmodelled
            ELSE Eval(p.ast, scope)
    IN  Compiled(Parse(expr))

(***************************************************************************)
(* SafeEvaluator.__init__: self.safe_dict (lines 18-69).                   *)
(***************************************************************************)
SafeDictInit ==
    (<<"a","b","s">> :> FuncV("abs")) @@
    (<<"r","o","u","n","d">> :> FuncV("round")) @@
    (<<"m","i","n">> :> FuncV("min")) @@
    (<<"m","a","x">> :> FuncV("max")) @@
    (<<"p","o","w">> :> FuncV("pow")) @@
    (<<"s","q","r","t">> :> FuncV("sqrt")) @@
    (<<"e","x","p">> :> FuncV("exp")) @@
    (<<"l","o","g">> :> FuncV("log")) @@
    (<<"l","o","g","1","0">> :> FuncV("log10")) @@
    (<<"l","o","g","2">> :> FuncV("log2")) @@
    (<<"f","a","c","t","o","r","i","a","l">> :> FuncV("factorial")) @@
    (<<"s","i","n">> :> FuncV("sin")) @@
    (<<"c","o","s">> :> FuncV("cos")) @@
    (<<"t","a","n">> :> FuncV("tan")) @@
    (<<"a","s","i","n">> :> FuncV("asin")) @@
    (<<"a","c","o","s">> :> FuncV("acos")) @@
    (<<"a","t","a","n">> :> FuncV("atan")) @@
    (<<"a","t","a","n","2">> :> FuncV("atan2")) @@
    (<<"s","i","n","h">> :> FuncV("sinh")) @@
    (<<"c","o","s","h">> :> FuncV("cosh")) @@
    (<<"t","a","n","h">> :> FuncV("tanh")) @@
    (<<"a","s","i","n","h">> :> FuncV("asinh")) @@
    (<<"a","c","o","s","h">> :> FuncV("acosh")) @@
    (<<"a","t","a","n","h">> :> FuncV("atanh")) @@
    (<<"d","e","g","r","e","e","s">> :> FuncV("degrees")) @@
    (<<"r","a","d","i","a","n","s">> :> FuncV("radians")) @@
    (<<"p","i">> :> ConstV("pi")) @@
    (<<"e">> :> ConstV("e")) @@
    (<<"t","a","u">> :> ConstV("tau")) @@
    (<<"i","n","f">> :> ConstV("inf")) @@
    (<<"n","a","n">> :> ConstV("nan")) @@
    (<<"c","e","i","l">> :> FuncV("ceil")) @@
    (<<"f","l","o","o","r">> :> FuncV("floor")) @@
    (<<"t","r","u","n","c">> :> FuncV("trunc")) @@
    (<<"g","c","d">> :> FuncV("gcd")) @@
    (<<"l","c","m">> :> FuncV("lcm")) @@
    (<<"_","_","b","u","i","l","t","i","n","s","_","_">> :> NoneV)

(***************************************************************************)
(* SafeEvaluator.evaluate (lines 71-89).  The result records               *)
(*   st, val, err  the outcome of the call; every exception leaves the     *)
(*                 method as ValueError (line 89), err keeps its cause     *)
(*   steps         the stages of the method that ran, in order             *)
(*   dict, vars    self.safe_dict and the caller's table after the call    *)
(***************************************************************************)
\* mutant of MergeScope: the built-in entry wins over the variable
MergeScopeBuiltinFirst(dict, tbl) ==
    [n \in DOMAIN dict \cup DOMAIN tbl |->
        IF n \in DOMAIN dict THEN dict[n] ELSE tbl[n]]

\* lines 82-84: eval_dict = self.safe_dict.copy(); eval_dict.update(variables)
MergeScope(dict, tbl) ==
    [n \in DOMAIN dict \cup DOMAIN tbl |->
        IF n \in DOMAIN tbl THEN tbl[n] ELSE dict[n]]

\* mutant of DictAfterMerge: update() applied to self.safe_dict itself
DictAfterMergeNoCopy(dict, tbl) ==
    [n \in DOMAIN dict \cup DOMAIN tbl |->
        IF n \in DOMAIN tbl THEN tbl[n] ELSE dict[n]]

\* line 82: the merge works on a copy, self.safe_dict keeps its entries
DictAfterMerge(dict, tbl) == dict

\* line 84: update() reads the caller's table and leaves it as it is
VarsAfterMerge(dict, tbl) == tbl

\* mutant of PassesCheck: the guard lets every text through
PassesCheckAlways(expr) == TRUE

\* line 78: the guard in front of eval()
PassesCheck(expr) == is_safe_expression(expr)

\* lines 73, 88-89: except Exception ... raise ValueError
Wrap(r) == IF r.st = "error" THEN [r EXCEPT !.raised = "ValueError"] ELSE r

RawResult(r, steps, dict, tbl) ==
    [st |-> r.st, val |-> r.val, err |-> r.err, raised |-> r.err,
     steps |-> steps, dict |-> dict, vars |-> tbl]

evaluate(expr, variables, dict) ==
    LET Checked(clean) ==
            IF ~PassesCheck(clean)
            THEN Wrap(RawResult(Err("ValidationError"), <<"sanitize", "validate">>,
                                dict, variables))
            ELSE Wrap(RawResult(PyEval(clean, MergeScope(dict, variables)),
                                <<"sanitize", "validate", "merge", "eval">>,
                                DictAfterMerge(dict, variables),
                                VarsAfterMerge(dict, variables)))
    IN  Checked(sanitize_input(expr))

(***************************************************************************)
(* What the user can type.  The texts are chosen so that every branch of   *)
(* the handlers is taken: plain expressions, assignments, comparisons,     *)
(* texts the validator rejects, unknown names and arithmetic faults.       *)
(***************************************************************************)
\* texts typed into self.input_area
TypedTexts ==
    { <<"e">>,
      <<"a","5">>,
      <<"2","3">>,
      <<"a","=","5">>,
      <<"a"," ","*"," ","2">>,
      <<"a","=","a","*","2">>,
      <<"e"," ","="," ","1","0">>,
      <<"_","x"," ","="," ","5">>,
      <<"_","x"," ","*"," ","2">>,
      <<"a"," ","=","="," ","5">>,
      <<"2"," ","^"," ","3">>,
      <<"2"," ","*","*"," ","3">>,
      <<"2"," ","+"," ","3","*","5">>,
      <<"U+FF08","2","+","3","U+FF09","*","5">>,
      <<"e",".","r","e","a","l">>,
      <<"n","o","s","u","c","h">>,
      <<"a","=","1","%","0">>,
      <<"a","=","n","o","s","u","c","h">>,
      <<"1","a"," ","="," ","5">>,
      <<" ","="," ","5"," ">>,
      <<"a"," ","="," ","2","#">>,
      <<"a"," ","="," "," ">>,
      <<"a","=","s","i","n">>,
      <<"1"," ",","," ","2">>,
      <<"a","=","9","9","*","*","9","9","9","9">>,
      <<"l","c","m","(","4",",","6",")">>,
      <<"l","c","m","(","0",",","5",")">> }

\* texts typed into self.var_name_edit before 添加变量
NameTexts ==
    { <<"a">>,
      <<"1","a">>,
      <<>> }

\* texts typed into self.var_value_edit
ValueTexts ==
    { <<"5">>,
      <<"n","o","s","u","c","h">>,
      <<>> }

\* texts typed into self.var_name_edit before 删除变量
DeleteTexts ==
    { <<"a">>,
      <<"e">>,
      <<"z","z">>,
      <<>> }

\* line 287: the operator buttons
Operators == {"+", "-", "*", "/", "^", "(", ")", "="}

\* lines 547-551: op_map.get(op, op)
MapOperator(op) ==
    CASE op = "^" -> <<"*", "*">>
      [] op = "=" -> <<"=", "=">>
      [] OTHER -> <<op>>

\* line 551: QLineEdit.insert(text) puts the text at the cursor position pos
InsertAt(text, pos, new) ==
    SubSeq(text, 1, pos) \o new \o SubSeq(text, pos + 1, Len(text))

(***************************************************************************)
(* str(value), used by the f-strings of lines 511, 517 and 604: the        *)
(* conversion of an int of more than IntMaxStrDigits digits raises         *)
(* ValueError.                                                             *)
(***************************************************************************)
RECURSIVE StrRaises(_)
StrRaises(v) ==
    \/ v.t = "int" /\ v.s = "huge"
    \/ v.t = "tuple" /\ \E i \in 1..Len(v.items) : StrRaises(v.items[i])

\* update_var_display (lines 594-606) formats every value of the table
DisplayRaises(tbl) == \E n \in DOMAIN tbl : StrRaises(tbl[n])

\* lines 508, 569: self.variables[var_name] = value
Store(tbl, name, value) ==
    [n \in DOMAIN tbl \cup {name} |-> IF n = name THEN value ELSE tbl[n]]

\* mutant of Remove: the deletion empties the table
RemoveAll(tbl, name) == <<>>

\* line 587: del self.variables[var_name]
Remove(tbl, name) == [n \in DOMAIN tbl \ {name} |-> tbl[n]]

\* lines 507-508 and 568-569: the store is reached only when evaluate returned
StoreResult(tbl, name, res) ==
    IF res.st = "ok" THEN Store(tbl, name, res.val) ELSE tbl

(***************************************************************************)
(* State.                                                                  *)
(*   safe_dict   self.evaluator.safe_dict                                  *)
(*   variables   self.variables                                            *)
(*   input_area  the text of self.input_area                               *)
(*   inserts     operator buttons pressed since the field was last empty   *)
(*   crashed     an exception left a handler uncaught                      *)
(*   last        what the last handler did (history, for the properties)   *)
(*   call        a call made directly on the evaluator or on one of its     *)
(*               functions, remembered for the properties; the handlers of  *)
(*               the window leave it alone                                  *)
(* self.history and self.result_area only accumulate the result texts and  *)
(* are not read by any handler below; they are left out.                   *)
(* The handlers of the variables tab neither read nor write the input      *)
(* field, so they commute with its editing; the model runs them while the  *)
(* field is empty, and text is typed into the empty field.                 *)
(***************************************************************************)
VARIABLES safe_dict, variables, input_area, inserts, crashed, last, call

vars == <<safe_dict, variables, input_area, inserts, crashed, last, call>>

NoEval == [st |-> "none", val |-> NoneV, err |-> "", raised |-> "",
           steps |-> <<>>, vars |-> <<>>]

\* the part of an evaluate result the history keeps
Seen(res) == [st |-> res.st, val |-> res.val, err |-> res.err, raised |-> res.raised,
              steps |-> res.steps, vars |-> res.vars]

Last(op, input, name, expr, assign, outcome, error, res, before) ==
    [op |-> op, input |-> input, name |-> name, expr |-> expr, assign |-> assign,
     outcome |-> outcome, error |-> error, res |-> res, before |-> before]

\* no call remembered
NoCall == [fn |-> "none", args |-> <<>>, out |-> NoEval, between |-> 0]

Init ==
    /\ safe_dict = SafeDictInit
    /\ variables = <<>>
    /\ input_area = <<>>
    /\ inserts = 0
    /\ crashed = FALSE
    /\ last = Last("none", <<>>, <<>>, <<>>, FALSE, "none", "", NoEval, <<>>)
    /\ call = NoCall

\* the evaluation stays inside the modelled fragment of Python
Modelled(res) ==
    /\ res.st \in {"ok", "error"}
    /\ res.st = "ok" /\ IsExact(res.val) => ~Big(res.val.n)

\* the user types text into the empty input field
TypeText(text) ==
    /\ ~crashed
    /\ UNCHANGED call
    /\ input_area = <<>>
    /\ input_area' = text
    /\ inserts' = 0
    /\ last' = Last("type", text, <<>>, <<>>, FALSE, "none", "", NoEval, variables)
    /\ UNCHANGED <<safe_dict, variables, crashed>>

\* clear_input (lines 619-623)
ClearInput ==
    /\ ~crashed
    /\ UNCHANGED call
    /\ input_area # <<>>
    /\ input_area' = <<>>
    /\ inserts' = 0
    /\ last' = Last("clear_input", input_area, <<>>, <<>>, FALSE, "none", "", NoEval, variables)
    /\ UNCHANGED <<safe_dict, variables, crashed>>

\* insert_operator (lines 545-552), with the cursor at position pos
InsertOperator(op, pos) ==
    /\ ~crashed
    /\ UNCHANGED call
    /\ inserts < MaxInserts
    /\ Len(input_area) + Len(MapOperator(op)) <= MaxLen
    /\ input_area' = InsertAt(input_area, pos, MapOperator(op))
    /\ inserts' = inserts + 1
    /\ last' = Last("insert_operator", input_area, <<>>, <<>>, FALSE, "none", "",
                    NoEval, variables)
    /\ UNCHANGED <<safe_dict, variables, crashed>>

\* lines 526-528: calculate catches ValueError and nothing else
Caught(res) == res.raised = "ValueError"

\* what a handler that did not show its result reports
Failure(res, shown) ==
    IF shown THEN "" ELSE IF res.st = "ok" THEN "Display" ELSE "Evaluation"

\* calculate (lines 489-528)
Calculate ==
    /\ ~crashed
    /\ UNCHANGED call
    /\ LET expr == Strip(input_area) IN
       IF expr = <<>>
       THEN \* lines 492-494
            /\ last' = Last("calculate", input_area, <<>>, <<>>, FALSE,
                            "ignored", "EmptyInput", NoEval, variables)
            /\ UNCHANGED <<safe_dict, variables, input_area, inserts, crashed>>
       ELSE IF Contains(expr, "=")
       THEN LET parts == SplitFirst(expr, "=")
                var_name == Strip(parts[1])
                var_expr == Strip(parts[2])
            IN  IF ~IsIdentifier(var_name)
                THEN \* lines 503-504
                     /\ last' = Last("calculate", input_area, var_name, var_expr, TRUE,
                                     "failure", "InvalidIdentifier", NoEval, variables)
                     /\ UNCHANGED <<safe_dict, variables, input_area, inserts, crashed>>
                ELSE \* lines 507-513
                     LET Shown(res, stored, shown) ==
                             /\ Modelled(res)
                             /\ Cardinality(DOMAIN stored) <= MaxVars
                             /\ safe_dict' = res.dict
                             /\ variables' = stored
                             /\ crashed' = (res.st = "error" /\ ~Caught(res))
                             /\ input_area' = IF shown THEN <<>> ELSE input_area
                             /\ inserts' = IF shown THEN 0 ELSE inserts
                             /\ last' = Last("calculate", input_area, var_name, var_expr,
                                             TRUE, IF shown THEN "success" ELSE "failure",
                                             Failure(res, shown), Seen(res), variables)
                         Stored(res, stored) ==
                             Shown(res, stored, res.st = "ok" /\ ~DisplayRaises(stored))
                         Evaluated(res) ==
                             Stored(res, StoreResult(res.vars, var_name, res))
                     IN  Evaluated(evaluate(var_expr, variables, safe_dict))
       ELSE \* lines 516-519
            LET Shown(res, shown) ==
                    /\ Modelled(res)
                    /\ safe_dict' = res.dict
                    /\ variables' = res.vars
                    /\ crashed' = (res.st = "error" /\ ~Caught(res))
                    /\ input_area' = IF shown THEN <<>> ELSE input_area
                    /\ inserts' = IF shown THEN 0 ELSE inserts
                    /\ last' = Last("calculate", input_area, <<>>, expr, FALSE,
                                    IF shown THEN "success" ELSE "failure",
                                    Failure(res, shown), Seen(res), variables)
                Evaluated(res) == Shown(res, res.st = "ok" /\ ~StrRaises(res.val))
            IN  Evaluated(evaluate(expr, variables, safe_dict))

\* add_variable (lines 554-576)
AddVariable(nameText, valueText) ==
    /\ ~crashed
    /\ UNCHANGED call
    /\ input_area = <<>>
    /\ LET var_name == Strip(nameText)
           var_value == Strip(valueText)
       IN  IF var_name = <<>> \/ var_value = <<>>
           THEN \* lines 559-561
                /\ last' = Last("add_variable", valueText, var_name, var_value, TRUE,
                                "failure", "EmptyField", NoEval, variables)
                /\ UNCHANGED <<safe_dict, variables, input_area, inserts, crashed>>
           ELSE IF ~IsIdentifier(var_name)
           THEN \* lines 563-565
                /\ last' = Last("add_variable", valueText, var_name, var_value, TRUE,
                                "failure", "InvalidIdentifier", NoEval, variables)
                /\ UNCHANGED <<safe_dict, variables, input_area, inserts, crashed>>
           ELSE \* lines 567-574
                LET Shown(res, stored, shown) ==
                        /\ Modelled(res)
                        /\ Cardinality(DOMAIN stored) <= MaxVars
                        /\ safe_dict' = res.dict
                        /\ variables' = stored
                        /\ crashed' = (res.st = "error" /\ ~Caught(res))
                        /\ last' = Last("add_variable", valueText, var_name, var_value,
                                        TRUE, IF shown THEN "success" ELSE "failure",
                                        Failure(res, shown), Seen(res), variables)
                        /\ UNCHANGED <<input_area, inserts>>
                    Stored(res, stored) ==
                        Shown(res, stored, res.st = "ok" /\ ~DisplayRaises(stored))
                    Evaluated(res) ==
                        Stored(res, StoreResult(res.vars, var_name, res))
                IN  Evaluated(evaluate(var_value, variables, safe_dict))

\* delete_variable (lines 578-592)
DeleteVariable(nameText) ==
    /\ ~crashed
    /\ UNCHANGED call
    /\ input_area = <<>>
    /\ LET var_name == Strip(nameText) IN
       IF var_name = <<>>
       THEN \* lines 582-584
            /\ last' = Last("delete_variable", nameText, var_name, <<>>, FALSE,
                            "failure", "EmptyField", NoEval, variables)
            /\ UNCHANGED <<safe_dict, variables, input_area, inserts, crashed>>
       ELSE IF var_name \in DOMAIN variables
       THEN \* lines 586-590; update_var_display runs outside any try
            /\ variables' = Remove(variables, var_name)
            /\ crashed' = DisplayRaises(variables')
            /\ last' = Last("delete_variable", nameText, var_name, <<>>, FALSE,
                            IF crashed' THEN "crash" ELSE "success", "", NoEval, variables)
            /\ UNCHANGED <<safe_dict, input_area, inserts>>
       ELSE \* line 592
            /\ last' = Last("delete_variable", nameText, var_name, <<>>, FALSE,
                            "failure", "Missing", NoEval, variables)
            /\ UNCHANGED <<safe_dict, variables, input_area, inserts, crashed>>

Next ==
    \/ \E text \in TypedTexts : TypeText(text)
    \/ ClearInput
    \/ \E op \in Operators : \E pos \in 0..Len(input_area) : InsertOperator(op, pos)
    \/ Calculate
    \/ \E nameText \in NameTexts : \E valueText \in ValueTexts : AddVariable(nameText, valueText)
    \/ \E nameText \in DeleteTexts : DeleteVariable(nameText)

Spec == Init /\ [][Next]_vars

(***************************************************************************)
(* SafeEvaluator used on its own: a caller that keeps a table, calls        *)
(* evaluate(expr, table) any number of times and changes its table between  *)
(* the calls.                                                              *)
(***************************************************************************)
\* expressions the caller evaluates
EvalTexts ==
    { <<"e">>,
      <<"a"," ","*"," ","2">>,
      <<"n","o","s","u","c","h">>,
      <<"1","%","0">>,
      <<"_","x">> }

\* tables the caller passes
EvalTables ==
    { <<>>,
      (<<"a">> :> IntV(5)),
      (<<"e">> :> IntV(10)) }

\* evaluate(expr, variables) (lines 71-89) called on the evaluator
EvaluateCall(expr) ==
    /\ call.fn = "evaluate" => call.between < MaxBetween
    /\ LET Returned(res) ==
               /\ Modelled(res)
               /\ safe_dict' = res.dict
               /\ variables' = res.vars
               /\ last' = Last("evaluate", expr, <<>>, expr, FALSE,
                               IF res.st = "ok" THEN "success" ELSE "failure",
                               Failure(res, res.st = "ok"), Seen(res), variables)
       IN  Returned(evaluate(expr, variables, safe_dict))
    /\ call' = IF call.fn = "evaluate"
               THEN [call EXCEPT !.between = call.between + 1]
               ELSE call
    /\ UNCHANGED <<input_area, inserts, crashed>>

\* the property's memory: the call just made is the one later calls are
\* compared with
Remember ==
    /\ last.op = "evaluate"
    /\ call = NoCall
    /\ call' = [fn |-> "evaluate", args |-> <<last.expr, last.before>>,
                out |-> last.res, between |-> 0]
    /\ UNCHANGED <<safe_dict, variables, input_area, inserts, crashed, last>>

\* the caller changes its own table between two calls
SetTable(tbl) ==
    /\ tbl # variables
    /\ variables' = tbl
    /\ UNCHANGED <<safe_dict, input_area, inserts, crashed, last, call>>

EvalNext ==
    \/ \E expr \in EvalTexts : EvaluateCall(expr)
    \/ Remember
    \/ \E tbl \in EvalTables : SetTable(tbl)

EvalSpec == Init /\ [][EvalNext]_vars

(***************************************************************************)
(* The functions of the evaluator applied to one input each: the input is  *)
(* drawn at the start, the action applies the function to it.              *)
(*   call.fn = the function, call.args = its arguments, call.out = what it *)
(*   returned once call.done, call.first = the earlier call whose output   *)
(*   was passed on as this call's argument                                 *)
(***************************************************************************)
NotReturned == ER("none", NoneV, "")

Pending(fn, args) ==
    [fn |-> fn, args |-> args, out |-> NotReturned, done |-> FALSE, first |-> NoCall]

\* safe_dict['lcm'](a, b) for integers a, b
LcmCalls == {Pending("lcm", <<a, b>>) : a \in -MaxArg..MaxArg, b \in -MaxArg..MaxArg}

\* characters of the strings given to sanitize_input
SanitizeChars == {" ", "\t", "\n", "U+3000", FullLeft, FullRight, "(", "a", "A"}

RECURSIVE StringsUpTo(_, _)
StringsUpTo(chars, n) ==
    IF n = 0 THEN {<<>>}
    ELSE LET Longer(shorter) ==
                 shorter \cup {Append(s, c) : s \in shorter, c \in chars}
         IN  Longer(StringsUpTo(chars, n - 1))

\* sanitize_input(expr) for strings expr
SanitizeCalls == {Pending("sanitize_input", <<s>>) : s \in StringsUpTo(SanitizeChars, MaxStr)}

\* a number with n minus signs in front of it
NestedText(n) == [i \in 1..n |-> "-"] \o <<"1">>

\* evaluate(expr) with no variables, for texts nested up to MaxNest deep
EvaluateCalls == {Pending("evaluate", <<NestedText(n), <<>>>>) : n \in 1..MaxNest}

PureInit ==
    /\ safe_dict = SafeDictInit
    /\ variables = <<>>
    /\ input_area = <<>>
    /\ inserts = 0
    /\ crashed = FALSE
    /\ last = Last("none", <<>>, <<>>, <<>>, FALSE, "none", "", NoEval, <<>>)
    /\ \/ call \in LcmCalls
       \/ call \in SanitizeCalls
       \/ call \in EvaluateCalls

\* line 65: the callable stored under 'lcm' applied to two integers
ApplyLcm ==
    /\ call.fn = "lcm"
    /\ ~call.done
    /\ LET Returned(r) ==
               /\ r.st \in {"ok", "error"}
               /\ call' = [call EXCEPT !.out = r, !.done = TRUE]
       IN  Returned(Call(safe_dict[<<"l","c","m">>],
                         <<IntV(call.args[1]), IntV(call.args[2])>>))
    /\ UNCHANGED <<safe_dict, variables, input_area, inserts, crashed, last>>

\* lines 91-97: sanitize_input returns a string for every string
ApplySanitize ==
    /\ call.fn = "sanitize_input"
    /\ ~call.done
    /\ call' = [call EXCEPT !.out = ER("ok", sanitize_input(call.args[1]), ""),
                            !.done = TRUE]
    /\ UNCHANGED <<safe_dict, variables, input_area, inserts, crashed, last>>

\* the caller passes what sanitize_input returned to sanitize_input again
SanitizeAgain ==
    /\ call.fn = "sanitize_input"
    /\ call.done
    /\ call.first = NoCall
    /\ call' = [Pending("sanitize_input", <<call.out.val>>) EXCEPT !.first = call]
    /\ UNCHANGED <<safe_dict, variables, input_area, inserts, crashed, last>>

\* lines 71-89: evaluate returns a value or raises ValueError
ApplyEvaluate ==
    /\ call.fn = "evaluate"
    /\ ~call.done
    /\ LET Returned(res) ==
               /\ Modelled(res)
               /\ call' = [call EXCEPT !.out = Seen(res), !.done = TRUE]
               /\ safe_dict' = res.dict
       IN  Returned(evaluate(call.args[1], call.args[2], safe_dict))
    /\ UNCHANGED <<variables, input_area, inserts, crashed, last>>

PureNext ==
    \/ ApplyLcm
    \/ ApplySanitize
    \/ SanitizeAgain
    \/ ApplyEvaluate

PureSpec == PureInit /\ [][PureNext]_vars

(***************************************************************************)
(* Properties.                                                             *)
(***************************************************************************)
\* the last handler called evaluate
CalledEvaluate == last.res.st # "none"

\* the text evaluate worked on, after sanitize_input
CleanExpr == sanitize_input(last.expr)

\* the allow-list as the specification words it
AllowList ==
    {"0","1","2","3","4","5","6","7","8","9","U+0663"} \cup
    {"+", "-", "*", "/", "%", "(", ")", ".", ","} \cup
    AsciiLetters \cup
    {"!", "^", "&", "=", "<", ">", "|", "~"}

OutsideAllowList(s) == s = <<>> \/ \E i \in 1..Len(s) : s[i] \notin AllowList

\* C1: a text that is empty after sanitizing, or holds a character outside
\* the allow-list, makes evaluate fail with a validation error without
\* reaching eval(); and eval() never runs unless the validator ran before it.
C1_ValidatorBeforeEval ==
    CalledEvaluate =>
        /\ OutsideAllowList(CleanExpr) =>
              /\ last.res.st = "error"
              /\ last.res.err = "ValidationError"
              /\ \A i \in 1..Len(last.res.steps) : last.res.steps[i] # "eval"
        /\ \A i \in 1..Len(last.res.steps) :
              last.res.steps[i] = "eval" =>
                  \E j \in 1..(i - 1) : last.res.steps[j] = "validate"

\* a non-empty text with a character outside the allow-list was rejected
C1_Witness ==
    /\ CalledEvaluate
    /\ CleanExpr # <<>>
    /\ OutsideAllowList(CleanExpr)
    /\ last.res.err = "ValidationError"

RECURSIVE HasAttr(_), AnyHasAttr(_)
HasAttr(ast) ==
    CASE ast.k = "attr" -> TRUE
      [] ast.k = "un" -> HasAttr(ast.x)
      [] ast.k = "bin" -> HasAttr(ast.l) \/ HasAttr(ast.r)
      [] ast.k = "cmp" -> HasAttr(ast.first) \/ AnyHasAttr(ast.rest)
      [] ast.k = "tuple" -> AnyHasAttr(ast.elems)
      [] ast.k = "call" -> HasAttr(ast.f) \/ AnyHasAttr(ast.args)
      [] OTHER -> FALSE

AnyHasAttr(asts) == \E i \in 1..Len(asts) : HasAttr(asts[i])

RECURSIVE NamesOf(_), NamesOfAll(_)
NamesOf(ast) ==
    CASE ast.k = "name" -> {ast.id}
      [] ast.k = "attr" -> NamesOf(ast.x)
      [] ast.k = "un" -> NamesOf(ast.x)
      [] ast.k = "bin" -> NamesOf(ast.l) \cup NamesOf(ast.r)
      [] ast.k = "cmp" -> NamesOf(ast.first) \cup NamesOfAll(ast.rest)
      [] ast.k = "tuple" -> NamesOfAll(ast.elems)
      [] ast.k = "call" -> NamesOf(ast.f) \cup NamesOfAll(ast.args)
      [] OTHER -> {}

NamesOfAll(asts) == UNION {NamesOf(asts[i]) : i \in 1..Len(asts)}

\* C2: an evaluation that succeeds resolved every name in the merged scope
\* and read no attribute or method of a value.
C2_ScopeOnlyNoAttributes ==
    CalledEvaluate /\ last.res.st = "ok" =>
        LET ast == Parse(CleanExpr).ast
        IN  /\ NamesOf(ast) \subseteq (DOMAIN SafeDictInit \cup DOMAIN last.before)
            /\ ~HasAttr(ast)

\* C3: a handler that reports a failure leaves self.variables as it was and
\* the program running.
C3_FailureKeepsTable ==
    last.outcome = "failure" => variables = last.before /\ ~crashed

C5_VariableShadowsBuiltin ==
    /\ CalledEvaluate /\ ~last.assign
         /\ CleanExpr \in DOMAIN last.before /\ CleanExpr \in DOMAIN SafeDictInit
       => last.res.st = "ok" /\ last.res.val = last.before[CleanExpr]
    /\ last.assign /\ last.name \in DOMAIN SafeDictInit /\ last.res.st = "ok"
       => /\ last.error # "InvalidIdentifier"
          /\ last.name \in DOMAIN variables
          /\ variables[last.name] = last.res.val

\* e evaluated to the value of the variable e, not to the constant
C5_Witness ==
    /\ last.op = "calculate"
    /\ ~last.assign
    /\ CleanExpr = <<"e">>
    /\ <<"e">> \in DOMAIN last.before
    /\ last.res.st = "ok"
    /\ last.res.val = IntV(10)
    /\ SafeDictInit[<<"e">>] = ConstV("e")

\* the first "=" of s is followed by another "="
DoubleEquals(s) ==
    /\ Contains(s, "=")
    /\ FirstIndex(s, "=") < Len(s)
    /\ s[FirstIndex(s, "=") + 1] = "="

\* C6: a text whose first "=" is followed by "=" is evaluated as a
\* comparison, never handled as an assignment, and leaves the table alone.
C6_DoubleEqualsIsComparison ==
    last.op = "calculate" /\ DoubleEquals(Strip(last.input)) =>
        /\ ~last.assign
        /\ CalledEvaluate
        /\ variables = last.before

\* a valid identifier as the specification words it
IsValidName(s) ==
    /\ Len(s) >= 1
    /\ s[1] \in AsciiLetters \cup UnicodeLetters \cup {"_"}
    /\ \A i \in 2..Len(s) :
          s[i] \in AsciiLetters \cup UnicodeLetters \cup {"_"} \cup
                   {"0","1","2","3","4","5","6","7","8","9","U+0663"}

\* C7: an assignment is refused with the invalid-identifier error exactly
\* when its name is not a valid identifier, before evaluate is called.
C7_OnlyValidIdentifiers ==
    last.assign /\ last.error # "EmptyField" =>
        /\ ~IsValidName(last.name) =>
              /\ last.outcome = "failure"
              /\ last.error = "InvalidIdentifier"
              /\ ~CalledEvaluate
              /\ variables = last.before
        /\ IsValidName(last.name) => last.error # "InvalidIdentifier"

\* calculate refused a non-empty name that is not an identifier
C7_Witness ==
    /\ last.op = "calculate"
    /\ last.assign
    /\ last.name # <<>>
    /\ ~IsValidName(last.name)
    /\ last.error = "InvalidIdentifier"

\* C8: after a successful assignment the table is the old one with the name
\* bound to the value, and an expression name*2 over a numeric variable
\* evaluates to twice its value.
C8_AssignedNameUsable ==
    /\ last.assign /\ last.outcome = "success"
       => variables = Store(last.before, last.name, last.res.val)
    /\ \A n \in DOMAIN last.before :
          /\ CalledEvaluate /\ ~last.assign
          /\ CleanExpr = n \o <<"*", "2">>
          /\ IsExact(last.before[n])
          => /\ last.res.st = "ok"
             /\ last.res.val = BinOp("*", last.before[n], IntV(2)).val

\* C9: every value evaluate returns and every value in the table is numeric.
C9_ValuesNumeric ==
    /\ \A n \in DOMAIN variables : IsNumeric(variables[n])
    /\ last.res.st = "ok" => IsNumeric(last.res.val)

\* s with every "^" replaced by "**"
RECURSIVE CaretToPower(_)
CaretToPower(s) ==
    IF s = <<>> THEN <<>>
    ELSE (IF Head(s) = "^" THEN <<"*", "*">> ELSE <<Head(s)>>) \o CaretToPower(Tail(s))

\* C10: a text with "^" evaluates to what the text with "**" in its place
\* evaluates to.
C10_CaretIsPower ==
    CalledEvaluate /\ Contains(last.expr, "^") =>
        LET alt == evaluate(CaretToPower(last.expr), last.before, SafeDictInit)
        IN  alt.st = last.res.st /\ alt.val = last.res.val /\ alt.err = last.res.err

\* C11: a call of evaluate with the expression and the table of a remembered
\* earlier call returns what that call returned, whatever was evaluated and
\* however the table was changed and restored in between.
C11_SameCallSameOutcome ==
    /\ call.fn = "evaluate"
    /\ last.op = "evaluate"
    /\ <<last.expr, last.before>> = call.args
    => last.res = call.out

\* the remembered call was repeated after another call, against a table
\* that holds a variable, and returned a value
C11_Witness ==
    /\ call.fn = "evaluate"
    /\ call.between >= 2
    /\ last.op = "evaluate"
    /\ <<last.expr, last.before>> = call.args
    /\ last.before # <<>>
    /\ last.res.st = "ok"
    /\ last.res = call.out

\* the greatest common divisor of two positive integers, as a divisor
GreatestCommonDivisor(x, y) ==
    CHOOSE d \in 1..x :
        /\ x % d = 0 /\ y % d = 0
        /\ \A c \in (d + 1)..x : ~(x % c = 0 /\ y % c = 0)

Magnitude(x) == IF x < 0 THEN 0 - x ELSE x

\* C12: lcm(a, b) returns 0 when a or b is 0, and otherwise the integer q
\* with q * gcd(a, b) = abs(a * b); it raises nothing.
C12_LcmValue ==
    call.fn = "lcm" /\ call.done =>
        LET a == call.args[1]
            b == call.args[2]
        IN  /\ call.out.st = "ok"
            /\ call.out.val.t = "int"
            /\ IF a = 0 \/ b = 0
               THEN call.out.val.n = 0
               ELSE call.out.val.n * GreatestCommonDivisor(Magnitude(a), Magnitude(b))
                        = Magnitude(a * b)

\* lcm(0, 5) returned 0
C12_Witness ==
    /\ call.fn = "lcm"
    /\ call.done
    /\ call.args = <<0, 5>>
    /\ call.out = ER("ok", IntV(0), "")

\* how deep the operators, calls and groups of an expression are nested
\* around its innermost operand
RECURSIVE NestingDepth(_)
NestingDepth(ast) ==
    LET Deepest(asts) ==
            IF asts = <<>> THEN 0
            ELSE CHOOSE d \in {NestingDepth(asts[i]) : i \in 1..Len(asts)} :
                     \A i \in 1..Len(asts) : NestingDepth(asts[i]) <= d
    IN  CASE ast.k = "un" -> Len(ast.ops) + NestingDepth(ast.x)
          [] ast.k = "bin" -> 1 + Deepest(<<ast.l, ast.r>>)
          [] ast.k = "cmp" -> 1 + Deepest(<<ast.first>> \o ast.rest)
          [] ast.k = "attr" -> 1 + NestingDepth(ast.x)
          [] ast.k = "tuple" -> 1 + Deepest(ast.elems)
          [] ast.k = "call" -> 1 + Deepest(<<ast.f>> \o ast.args)
          [] OTHER -> 0

\* the expression evaluate compiles from text is nested more than depth deep
DeeperThan(text, depth) ==
    LET Compiled(p) == p.st = "ok" /\ NestingDepth(p.ast) > depth
    IN  Compiled(Parse(sanitize_input(text)))

\* C13: evaluate called with an expression nested more than 256 deep fails
\* with a ParseDepthExceeded error and returns no value of the expression.
C13_OverDeepRejected ==
    call.fn = "evaluate" /\ call.done /\ DeeperThan(call.args[1], 256) =>
        /\ call.out.st = "error"
        /\ call.out.err = "ParseDepthExceeded"

\* positions of s that hold no whitespace character
KeptPositions(s) == {i \in 1..Len(s) : s[i] \notin Whitespace}

\* a character with a full-width parenthesis turned into the ASCII one
AsciiParen(c) == IF c = FullLeft THEN "(" ELSE IF c = FullRight THEN ")" ELSE c

\* out is s without its whitespace characters, in the same order, each
\* character kept as it is except for the full-width parentheses
IsSanitized(s, out) ==
    /\ Len(out) = Cardinality(KeptPositions(s))
    /\ \A i \in KeptPositions(s) :
           out[Cardinality({j \in KeptPositions(s) : j <= i})] = AsciiParen(s[i])

OnlyBindingRemoved(before, after, name) ==
    /\ name \notin DOMAIN after
    /\ \A n \in DOMAIN before : n # name => n \in DOMAIN after /\ after[n] = before[n]
    /\ \A n \in DOMAIN after : n \in DOMAIN before

\* the evaluator returns the built-in of that name
YieldsBuiltin(name, res) == res.st = "ok" /\ res.val = SafeDictInit[name]

\* C15: deleting a name of the table removes that binding and no other;
\* deleting a name that is not in the table is reported as an error and leaves
\* the table as it was; and once a variable with the name of a built-in is
\* deleted, evaluating the name gives the built-in again.
C15_DeleteRemovesOneBinding ==
    last.op = "delete_variable" =>
        /\ last.name \in DOMAIN last.before
           => OnlyBindingRemoved(last.before, variables, last.name)
        /\ last.name \notin DOMAIN last.before
           => last.outcome = "failure" /\ variables = last.before
        /\ (/\ last.name \in DOMAIN last.before
            /\ last.name \in DOMAIN SafeDictInit
            /\ ~crashed)
           => YieldsBuiltin(last.name, evaluate(last.name, variables, safe_dict))

\* the variable e, which held 10, was deleted while a stayed in the table
C15_Witness ==
    /\ last.op = "delete_variable"
    /\ last.outcome = "success"
    /\ last.name = <<"e">>
    /\ DOMAIN last.before = {<<"a">>, <<"e">>}
    /\ last.before[<<"e">>] = IntV(10)
    /\ DOMAIN variables = {<<"a">>}

====
